---- MODULE Spec2Model ----
(***************************************************************************)
(* MyCsvUploader (react-csv-uploader): the upload handler onDrop with the  *)
(* asynchronous Papa.parse callbacks, the delete and visualize handlers    *)
(* and the dataFetcher promise, as a state machine over the component's    *)
(* useState fields.                                                        *)
(*                                                                         *)
(* A JavaScript string that the code inspects (a CSV cell) is a sequence   *)
(* of one-character strings; a nullable value is a sequence of length at   *)
(* most one (None is null/undefined); a message built by a template        *)
(* literal is the tuple of its pieces.                                     *)
(***************************************************************************)
EXTENDS Integers, Sequences, FiniteSets, TLC

VARIABLES
    columnConfigs,          \* prop
    maxSizeMB,              \* prop
    alreadyUploadedPath,    \* prop
    validator,              \* prop
    uploadedFileName,       \* useState
    uploadedFileSize,       \* useState
    errors,                 \* useState
    parsedData,             \* useState
    fileError,              \* useState
    showUploadedDataTable,  \* useState
    inflight,               \* Papa.parse calls whose callback is still to come
    pendingFetches,         \* dataFetcher promises not yet settled
    op,                     \* history: the handler that ran last
    opFile,                 \* history: the file that handler was about
    opLatest,               \* history: that file was the latest selection
    allErrors,              \* history: the local allErrors of the last complete
    calls,                  \* history: callbacks the last handler invoked
    validateCalls,          \* history: col.validate calls of the last handler
    parsedDataSrc,          \* history: which event wrote parsedData
    deletedSince            \* history: confirmed delete, no selection/visualize since

props == <<columnConfigs, maxSizeMB, alreadyUploadedPath, validator>>
fields == <<uploadedFileName, uploadedFileSize, errors, parsedData, fileError,
            showUploadedDataTable>>
history == <<op, opFile, opLatest, allErrors, calls, validateCalls,
             parsedDataSrc, deletedSince>>
vars == <<props, fields, inflight, pendingFetches, history>>

---------------------------------------------------------------------------
(* Bounds *)

MaxRows == 2
MaxInflight == 2
MaxFetches == 1

---------------------------------------------------------------------------
(* Values *)

None == <<>>
Some(x) == <<x>>

BoundedSeq(S, n) == UNION {[1..k -> S] : k \in 0..n}

Whitespace == {" "}
Digits == {"7"}

\* String.prototype.trim
RECURSIVE TrimStart(_)
TrimStart(s) ==
    IF s # <<>> /\ Head(s) \in Whitespace THEN TrimStart(Tail(s)) ELSE s

RECURSIVE TrimEnd(_)
TrimEnd(s) ==
    IF s # <<>> /\ s[Len(s)] \in Whitespace
    THEN TrimEnd(SubSeq(s, 1, Len(s) - 1)) ELSE s

Trim(s) == TrimEnd(TrimStart(s))

\* the validate function of the calibration scenario: v => /^\d+$/.test(v)
IsDigits(v) == Len(v) > 0 /\ \A i \in 1..Len(v) : v[i] \in Digits

ApplyValidate(kind, v) == IF kind = "digits" THEN IsDigits(v) ELSE TRUE

ColumnNames == {"id", "age"}
CellValues == {<<>>, <<" ">>, <<" ", "7", " ">>, <<"a">>}

\* Record<string, string>: a header-keyed row; a short line lacks trailing keys
Rows == UNION {[S -> CellValues] : S \in SUBSET ColumnNames}

ColumnConfig == [name : ColumnNames, required : BOOLEAN,
                 validate : {None, Some("digits")}]

AllColumnConfigs ==
    {cs \in BoundedSeq(ColumnConfig, Cardinality(ColumnNames)) :
        \A i, j \in 1..Len(cs) : i # j => cs[i].name # cs[j].name}

BytesPerMB == 1024 * 1024
FileNames == {"a.csv", "b.csv"}
FileSizes == {BytesPerMB, BytesPerMB + 1}

\* the files of the validation pass: every data of at most MaxRows rows
ValidationFiles ==
    [name : {"a.csv"}, size : {BytesPerMB}, data : BoundedSeq(Rows, MaxRows)]

---------------------------------------------------------------------------
(* The per-row pass of the complete callback *)

\* mutant of CellVal: the value is read without .trim()
CellValNoTrim(row, name) ==
    IF name \in DOMAIN row THEN Some(row[name]) ELSE None

\* const val = row[col.name]?.trim()
CellVal(row, name) ==
    IF name \in DOMAIN row THEN Some(Trim(row[name])) ELSE None

\* !val for a string | undefined
Falsy(val) == val = None \/ val[1] = <<>>

MissingMsg(index, name) ==
    <<"Row ", ToString(index + 2), ": Missing required field \"", name, "\".">>

InvalidMsg(index, name) ==
    <<"Row ", ToString(index + 2), ": Invalid value in \"", name, "\".">>

\* mutant of ColumnCheck: the second test lacks its `val &&` guard, so validate
\* is called for an absent or empty value too
ColumnCheckUnguarded(col, row, index) ==
    LET val == CellVal(row, col.name)
        str == IF val = None THEN <<>> ELSE val[1]
        missing == col.required /\ Falsy(val)
        consulted == col.validate # None
        invalid == consulted /\ ~ApplyValidate(col.validate[1], str)
    IN  [pushed |-> (IF missing THEN <<MissingMsg(index, col.name)>> ELSE <<>>)
                    \o (IF invalid THEN <<InvalidMsg(index, col.name)>> ELSE <<>>),
         consulted |-> IF consulted
                       THEN <<[index |-> index, name |-> col.name, arg |-> str]>>
                       ELSE <<>>]

\* the body of columnConfigs.forEach for one column of one row: the messages
\* pushed to allErrors and the calls made to col.validate
ColumnCheck(col, row, index) ==
    LET val == CellVal(row, col.name)
        missing == col.required /\ Falsy(val)
        consulted == ~Falsy(val) /\ col.validate # None
        invalid == consulted /\ ~ApplyValidate(col.validate[1], val[1])
    IN  [pushed |-> (IF missing THEN <<MissingMsg(index, col.name)>> ELSE <<>>)
                    \o (IF invalid THEN <<InvalidMsg(index, col.name)>> ELSE <<>>),
         consulted |-> IF consulted
                       THEN <<[index |-> index, name |-> col.name, arg |-> val[1]]>>
                       ELSE <<>>]

\* columnConfigs.forEach over the columns k, k+1, ... of one row
RECURSIVE RowCheck(_, _, _)
RowCheck(row, index, k) ==
    IF k > Len(columnConfigs) THEN [pushed |-> <<>>, consulted |-> <<>>]
    ELSE LET c == ColumnCheck(columnConfigs[k], row, index)
             rest == RowCheck(row, index, k + 1)
         IN  [pushed |-> c.pushed \o rest.pushed,
              consulted |-> c.consulted \o rest.consulted]

\* data.filter((row, index) => ...) from zero-based index i on: allErrors, the
\* rows kept (valid stayed true) and the validate calls
RECURSIVE FilterPass(_, _)
FilterPass(data, i) ==
    IF i >= Len(data)
    THEN [allErrors |-> <<>>, validated |-> <<>>, consulted |-> <<>>]
    ELSE LET r == RowCheck(data[i + 1], i, 1)
             rest == FilterPass(data, i + 1)
         IN  [allErrors |-> r.pushed \o rest.allErrors,
              validated |-> (IF r.pushed = <<>> THEN <<data[i + 1]>> ELSE <<>>)
                            \o rest.validated,
              consulted |-> r.consulted \o rest.consulted]

\* mutant of HasRowErrors: the test is inverted
HasRowErrorsInverted(errs) == Len(errs) = 0

\* if (allErrors.length > 0)
HasRowErrors(errs) == Len(errs) > 0

\* the caller's validator: the default () => null, or a check of the batch that
\* returns "" for a batch it accepts and a message for one it rejects
ValidatorChoices == {"default", "atMostOneRow"}

\* validator(validated)
ApplyValidator(v, data) ==
    IF v = "default" THEN None
    ELSE IF Len(data) <= 1 THEN Some("") ELSE Some("Too many rows.")

\* mutant of ValidatorRejects: the validator's result is not looked at
ValidatorRejectsNever(v) == FALSE

\* if (validationErr)
ValidatorRejects(v) == v # None /\ v[1] # ""

---------------------------------------------------------------------------
(* The size gate *)

\* const maxSize = maxSizeMB ? maxSizeMB * 1024 * 1024 : null
maxSize ==
    IF maxSizeMB # None /\ maxSizeMB[1] # 0 THEN Some(maxSizeMB[1] * BytesPerMB)
    ELSE None

\* mutant of ExceedsMaxSize: >= for >
ExceedsMaxSizeInclusive(size) == maxSize # None /\ size >= maxSize[1]

\* maxSize && file.size > maxSize
ExceedsMaxSize(size) == maxSize # None /\ size > maxSize[1]

\* `File exceeds maximum size of ${(maxSize / 1024 / 1024).toFixed(2)}MB.`
FileTooLargeMsg ==
    <<"File exceeds maximum size of ", ToString(maxSize[1] \div BytesPerMB), ".00",
      "MB.">>

\* (file.size / (1024 * 1024)).toFixed(4), as <<whole MB, ten-thousandths>>
ToFixed4MB(size) ==
    LET whole == size \div BytesPerMB
        frac == ((size % BytesPerMB) * 625 + 32768) \div 65536
    IN  IF frac = 10000 THEN <<whole + 1, 0>> ELSE <<whole, frac>>

---------------------------------------------------------------------------
(* Inputs of an upload session *)

GoodRow == [id |-> <<" ", "7", " ">>, age |-> <<" ", "7", " ">>]
BadRow == [id |-> <<" ">>, age |-> <<"a">>]

SessionData == {<<GoodRow>>, <<GoodRow, BadRow>>}
SessionFiles == [name : FileNames, size : FileSizes, data : SessionData]

\* rules = [{name:"id",required:true}, {name:"age",required:false,validate: digits}]
SessionConfigs ==
    {<<>>,
     <<[name |-> "id", required |-> TRUE, validate |-> None],
       [name |-> "age", required |-> FALSE, validate |-> Some("digits")]>>}

MaxSizeChoices == {None, Some(0), Some(1)}
PathChoices == {None, Some("/uploads/data.csv")}

\* what the caller's dataFetcher may resolve to
FetchedData == {<<>>, <<GoodRow>>}

NoCalls == <<>>
\* an invocation of a callback or collaborator: its rows argument and what it
\* returned (None when nothing is returned or the result is not used)
Call(fn, arg, ret) == [fn |-> fn, arg |-> arg, ret |-> ret]

---------------------------------------------------------------------------
(* The component *)

FreshState ==
    /\ uploadedFileName = None
    /\ uploadedFileSize = None
    /\ errors = <<>>
    /\ parsedData = <<>>
    /\ fileError = None
    /\ showUploadedDataTable = FALSE
    /\ pendingFetches = 0
    /\ op = "mount"
    /\ opFile = None
    /\ opLatest = FALSE
    /\ allErrors = <<>>
    /\ calls = NoCalls
    /\ validateCalls = <<>>
    /\ parsedDataSrc = "none"
    /\ deletedSince = FALSE

Init ==
    /\ columnConfigs \in SessionConfigs
    /\ maxSizeMB \in MaxSizeChoices
    /\ alreadyUploadedPath \in PathChoices
    /\ validator \in ValidatorChoices
    /\ inflight = <<>>
    /\ FreshState

\* the dropzone is rendered only without alreadyUploadedPath
DropzoneShown == alreadyUploadedPath = None

\* the visualize and delete buttons are rendered under this condition
ButtonsShown == alreadyUploadedPath # None \/ Len(parsedData) > 0

\* a new selection makes every parse still in flight one of an earlier upload
Superseded(q) == [i \in DOMAIN q |-> [q[i] EXCEPT !.latest = FALSE]]

SupersededSrc == IF parsedDataSrc = "latest" THEN "earlier" ELSE parsedDataSrc

\* onDrop with acceptedFiles = [] (the dropzone accepted no file)
onDropNoFile ==
    /\ DropzoneShown
    /\ errors' = <<>>
    /\ fileError' = None
    /\ UNCHANGED <<props, uploadedFileName, uploadedFileSize, parsedData,
                   showUploadedDataTable, pendingFetches, inflight, parsedDataSrc,
                   deletedSince>>
    /\ op' = "onDropNoFile"
    /\ opFile' = None
    /\ opLatest' = FALSE
    /\ allErrors' = <<>>
    /\ calls' = NoCalls
    /\ validateCalls' = <<>>

\* mutant of onDrop: the handler also resets the stored rows and file name
onDropDiscardsRows(file) ==
    /\ DropzoneShown
    /\ errors' = <<>>
    /\ parsedData' = <<>>
    /\ uploadedFileName' = None
    /\ IF ExceedsMaxSize(file.size)
       THEN /\ fileError' = Some(FileTooLargeMsg)
            /\ inflight' = Superseded(inflight)
            /\ calls' = NoCalls
       ELSE /\ Len(inflight) < MaxInflight
            /\ fileError' = None
            /\ inflight' = Append(Superseded(inflight), [file |-> file, latest |-> TRUE])
            /\ calls' = <<Call("Papa.parse", file.data, None)>>
    /\ UNCHANGED <<props, uploadedFileSize, showUploadedDataTable, pendingFetches>>
    /\ op' = "onDrop"
    /\ opFile' = Some(file)
    /\ opLatest' = TRUE
    /\ allErrors' = <<>>
    /\ validateCalls' = <<>>
    /\ parsedDataSrc' = "none"
    /\ deletedSince' = FALSE

\* onDrop with acceptedFiles = [file]
onDrop(file) ==
    /\ DropzoneShown
    /\ errors' = <<>>
    /\ IF ExceedsMaxSize(file.size)
       THEN /\ fileError' = Some(FileTooLargeMsg)
            /\ inflight' = Superseded(inflight)
            /\ calls' = NoCalls
       ELSE /\ Len(inflight) < MaxInflight
            /\ fileError' = None
            /\ inflight' = Append(Superseded(inflight), [file |-> file, latest |-> TRUE])
            /\ calls' = <<Call("Papa.parse", file.data, None)>>
    /\ UNCHANGED <<props, uploadedFileName, uploadedFileSize, parsedData,
                   showUploadedDataTable, pendingFetches>>
    /\ op' = "onDrop"
    /\ opFile' = Some(file)
    /\ opLatest' = TRUE
    /\ allErrors' = <<>>
    /\ validateCalls' = <<>>
    /\ parsedDataSrc' = SupersededSrc
    /\ deletedSince' = FALSE

Without(q, i) == SubSeq(q, 1, i - 1) \o SubSeq(q, i + 1, Len(q))

\* Papa.parse's complete callback for the i-th parse in flight
complete(i) ==
    /\ i \in DOMAIN inflight
    /\ LET file == inflight[i].file
           pass == FilterPass(file.data, 0)
       IN  /\ allErrors' = pass.allErrors
           /\ validateCalls' = pass.consulted
           /\ opFile' = Some(file)
           /\ opLatest' = inflight[i].latest
           /\ IF HasRowErrors(pass.allErrors)
              THEN /\ errors' = pass.allErrors
                   /\ calls' = NoCalls
                   /\ UNCHANGED <<parsedData, uploadedFileName, uploadedFileSize,
                                  parsedDataSrc>>
              ELSE LET v == ApplyValidator(validator, pass.validated)
                   IN
                     IF ValidatorRejects(v)
                     THEN /\ errors' = <<v[1]>>
                          /\ calls' = <<Call("validator", pass.validated, v)>>
                          /\ UNCHANGED <<parsedData, uploadedFileName,
                                         uploadedFileSize, parsedDataSrc>>
                     ELSE /\ parsedData' = pass.validated
                          /\ uploadedFileName' = Some(file.name)
                          /\ uploadedFileSize' = Some(ToFixed4MB(file.size))
                          /\ calls' = <<Call("validator", pass.validated, v),
                                        Call("onUpload", pass.validated, None)>>
                          /\ parsedDataSrc' =
                                IF inflight[i].latest THEN "latest" ELSE "stale"
                          /\ UNCHANGED errors
    /\ inflight' = Without(inflight, i)
    /\ op' = "complete"
    /\ UNCHANGED <<props, fileError, showUploadedDataTable, pendingFetches,
                   deletedSince>>

\* Papa.parse's error callback for the i-th parse in flight
error(i) ==
    /\ i \in DOMAIN inflight
    /\ fileError' = Some(<<"Parsing error: ", "read failed">>)
    /\ inflight' = Without(inflight, i)
    /\ op' = "error"
    /\ opFile' = Some(inflight[i].file)
    /\ opLatest' = inflight[i].latest
    /\ allErrors' = <<>>
    /\ calls' = NoCalls
    /\ validateCalls' = <<>>
    /\ UNCHANGED <<props, uploadedFileName, uploadedFileSize, errors, parsedData,
                   showUploadedDataTable, pendingFetches, parsedDataSrc,
                   deletedSince>>

\* mutant of handleDeleteData: a confirmed delete also clears both error displays
handleDeleteDataClearsErrors(confirmed) ==
    /\ ButtonsShown
    /\ IF confirmed
       THEN /\ parsedData' = <<>>
            /\ uploadedFileName' = None
            /\ showUploadedDataTable' = FALSE
            /\ errors' = <<>>
            /\ fileError' = None
            /\ calls' = <<Call("window.confirm", <<>>, None),
                         Call("onDelete", <<>>, None)>>
            /\ parsedDataSrc' = "none"
            /\ deletedSince' = TRUE
       ELSE /\ calls' = <<Call("window.confirm", <<>>, None)>>
            /\ UNCHANGED <<parsedData, uploadedFileName, showUploadedDataTable,
                           errors, fileError, parsedDataSrc, deletedSince>>
    /\ op' = IF confirmed THEN "deleteConfirmed" ELSE "deleteDeclined"
    /\ opFile' = None
    /\ opLatest' = FALSE
    /\ allErrors' = <<>>
    /\ validateCalls' = <<>>
    /\ UNCHANGED <<props, uploadedFileSize, inflight, pendingFetches>>

handleDeleteData(confirmed) ==
    /\ ButtonsShown
    /\ IF confirmed
       THEN /\ parsedData' = <<>>
            /\ uploadedFileName' = None
            /\ showUploadedDataTable' = FALSE
            /\ calls' = <<Call("window.confirm", <<>>, None),
                         Call("onDelete", <<>>, None)>>
            /\ parsedDataSrc' = "none"
            /\ deletedSince' = TRUE
       ELSE /\ calls' = <<Call("window.confirm", <<>>, None)>>
            /\ UNCHANGED <<parsedData, uploadedFileName, showUploadedDataTable,
                           parsedDataSrc, deletedSince>>
    /\ op' = IF confirmed THEN "deleteConfirmed" ELSE "deleteDeclined"
    /\ opFile' = None
    /\ opLatest' = FALSE
    /\ allErrors' = <<>>
    /\ validateCalls' = <<>>
    /\ UNCHANGED <<props, uploadedFileSize, errors, fileError, inflight,
                   pendingFetches>>

handleVisualizeData ==
    /\ ButtonsShown
    /\ showUploadedDataTable' = TRUE
    /\ IF alreadyUploadedPath # None
       THEN /\ pendingFetches < MaxFetches
            /\ pendingFetches' = pendingFetches + 1
            /\ calls' = <<Call("dataFetcher", <<>>, None)>>
       ELSE /\ calls' = NoCalls
            /\ UNCHANGED pendingFetches
    /\ op' = "visualize"
    /\ opFile' = None
    /\ opLatest' = FALSE
    /\ allErrors' = <<>>
    /\ validateCalls' = <<>>
    /\ deletedSince' = FALSE
    /\ UNCHANGED <<props, uploadedFileName, uploadedFileSize, errors, parsedData,
                   fileError, inflight, parsedDataSrc>>

\* dataFetcher().then(fetchedData => setParsedData(fetchedData))
fetchThen(fetchedData) ==
    /\ pendingFetches > 0
    /\ pendingFetches' = pendingFetches - 1
    /\ parsedData' = fetchedData
    /\ parsedDataSrc' = "fetch"
    /\ op' = "fetchThen"
    /\ opFile' = None
    /\ opLatest' = FALSE
    /\ allErrors' = <<>>
    /\ calls' = NoCalls
    /\ validateCalls' = <<>>
    /\ UNCHANGED <<props, uploadedFileName, uploadedFileSize, errors, fileError,
                   showUploadedDataTable, inflight, deletedSince>>

\* dataFetcher().catch(error => console.log(...))
fetchCatch ==
    /\ pendingFetches > 0
    /\ pendingFetches' = pendingFetches - 1
    /\ op' = "fetchCatch"
    /\ opFile' = None
    /\ opLatest' = FALSE
    /\ allErrors' = <<>>
    /\ calls' = NoCalls
    /\ validateCalls' = <<>>
    /\ UNCHANGED <<props, fields, inflight, parsedDataSrc, deletedSince>>

Next ==
    \/ onDropNoFile
    \/ \E file \in SessionFiles : onDrop(file)
    \/ \E i \in 1..MaxInflight : complete(i)
    \/ \E i \in 1..MaxInflight : error(i)
    \/ \E confirmed \in BOOLEAN : handleDeleteData(confirmed)
    \/ handleVisualizeData
    \/ \E fetchedData \in FetchedData : fetchThen(fetchedData)
    \/ fetchCatch

Spec == Init /\ [][Next]_vars

\* the validation pass alone: one file has been dropped on a fresh component
\* (no size limit, the default validator) and its parse callback is still to
\* come; every schema, every data
InitValidation ==
    /\ columnConfigs \in AllColumnConfigs
    /\ maxSizeMB = None
    /\ alreadyUploadedPath = None
    /\ validator = "default"
    /\ \E file \in ValidationFiles : inflight = <<[file |-> file, latest |-> TRUE]>>
    /\ FreshState

NextValidation == complete(1)

SpecValidation == InitValidation /\ [][NextValidation]_vars

---------------------------------------------------------------------------
(* Properties *)

Count(seq, x) == Cardinality({j \in DOMAIN seq : seq[j] = x})

\* absent, empty or whitespace only: empty after trimming, said without Trim
Blank(row, name) ==
    name \notin DOMAIN row \/ \A j \in 1..Len(row[name]) : row[name][j] = " "

Completed == op = "complete"
CompletedData == opFile[1].data

\* C1: after the complete callback, for every row i and every rule, allErrors
\* holds the message `Row <i+2>: Missing required field "<name>".` exactly once
\* if the rule is required and the row's value is absent or blank, and not at
\* all otherwise (so never for a rule with required = false).
C1_MissingRequiredExactlyOnce ==
    Completed =>
        \A i \in 0..(Len(CompletedData) - 1) : \A k \in 1..Len(columnConfigs) :
            LET col == columnConfigs[k]
                row == CompletedData[i + 1]
            IN  Count(allErrors, MissingMsg(i, col.name))
                    = IF col.required /\ Blank(row, col.name) THEN 1 ELSE 0

\* a completed pass with a required whitespace-only cell reported on row 3 and
\* a required non-blank cell not reported
C1_Witness ==
    /\ Completed
    /\ Len(CompletedData) = 2
    /\ \E k \in 1..Len(columnConfigs) :
          LET col == columnConfigs[k]
          IN  /\ col.required
              /\ col.name \in DOMAIN CompletedData[2]
              /\ CompletedData[2][col.name] = <<" ">>
              /\ Count(allErrors, MissingMsg(1, col.name)) = 1
              /\ col.name \in DOMAIN CompletedData[1]
              /\ CompletedData[1][col.name] = <<" ", "7", " ">>
              /\ Count(allErrors, MissingMsg(0, col.name)) = 0

\* C2: after the complete callback, for every row i and every rule, allErrors
\* holds `Row <i+2>: Invalid value in "<name>".` (once) exactly when the rule has
\* a validate function, the value is not blank and validate(trimmed value) is
\* false; validate is called exactly for the non-blank values of rules that
\* have one, with the trimmed value; and no (row, rule) pair has both a
\* Missing-required and an Invalid-value message.
C2_InvalidValueExactlyWhenPresentAndRejected ==
    Completed =>
        \A i \in 0..(Len(CompletedData) - 1) : \A k \in 1..Len(columnConfigs) :
            LET col == columnConfigs[k]
                row == CompletedData[i + 1]
                present == ~Blank(row, col.name)
                checked == col.validate # None /\ present
                consultations ==
                    {j \in DOMAIN validateCalls :
                        validateCalls[j].index = i /\ validateCalls[j].name = col.name}
            IN  /\ Count(allErrors, InvalidMsg(i, col.name))
                     = IF checked /\ ~ApplyValidate(col.validate[1], Trim(row[col.name]))
                       THEN 1 ELSE 0
                /\ Cardinality(consultations) = IF checked THEN 1 ELSE 0
                /\ \A j \in consultations :
                     validateCalls[j].arg = Trim(row[col.name])
                /\ ~(/\ Count(allErrors, MissingMsg(i, col.name)) > 0
                     /\ Count(allErrors, InvalidMsg(i, col.name)) > 0)

\* a completed pass where a rule that is required and validated met a blank
\* value (reported missing, validate not called), a padded number (accepted
\* after trimming) and a non-number (reported invalid)
C2_Witness ==
    /\ Completed
    /\ Len(CompletedData) = 2
    /\ \E k \in 1..Len(columnConfigs) :
          LET col == columnConfigs[k]
          IN  /\ col.required
              /\ col.validate = Some("digits")
              /\ CompletedData[1] = [id |-> <<" ", "7", " ">>, age |-> <<" ">>]
              /\ CompletedData[2] = [id |-> <<"a">>, age |-> <<"a">>]
              /\ col.name = "id"
              /\ Len(columnConfigs) = 2
              /\ columnConfigs[3 - k].validate = Some("digits")
              /\ columnConfigs[3 - k].required
              /\ Count(allErrors, InvalidMsg(0, "id")) = 0
              /\ Count(allErrors, InvalidMsg(1, "id")) = 1
              /\ Count(allErrors, MissingMsg(0, "age")) = 1
              /\ Count(allErrors, InvalidMsg(0, "age")) = 0
              /\ Len(validateCalls) = 3

CallsTo(fn, cs) == {j \in DOMAIN cs : cs[j].fn = fn}

\* the stored rows and what is shown about the accepted file
Accepted == <<parsedData, uploadedFileName, uploadedFileSize>>

\* C3: a complete callback whose per-row pass collected at least one message
\* sets errors to exactly the collected messages, stores no rows and no file
\* name (even when some rows passed every rule), and calls neither the batch
\* validator nor onUpload.
C3_RowErrorsRejectTheBatch ==
    [][(op' = "complete" /\ Len(allErrors') > 0) =>
          /\ errors' = allErrors'
          /\ Accepted' = Accepted
          /\ CallsTo("validator", calls') = {}
          /\ CallsTo("onUpload", calls') = {}]_vars

\* a file with one passing and one failing row was rejected as a whole
C3_Witness ==
    /\ Completed
    /\ CompletedData = <<GoodRow, BadRow>>
    /\ Len(allErrors) = 2
    /\ errors = allErrors
    /\ parsedData = <<>>
    /\ calls = NoCalls

\* C4: a complete callback with no per-row message calls the batch validator
\* once, with the parsed rows; when it returns a non-empty string, errors
\* becomes the one-element list of that string, no rows and no file name are
\* stored, and onUpload is not called.
C4_ValidatorMessageRejectsTheBatch ==
    [][(op' = "complete" /\ Len(allErrors') = 0) =>
          /\ Cardinality(CallsTo("validator", calls')) = 1
          /\ \A j \in CallsTo("validator", calls') :
                /\ calls'[j].arg = opFile'[1].data
                /\ (calls'[j].ret # None /\ calls'[j].ret # Some("")) =>
                      /\ errors' = <<calls'[j].ret[1]>>
                      /\ Accepted' = Accepted
                      /\ CallsTo("onUpload", calls') = {}]_vars

\* the validator rejected a file whose rows all passed, while the rows of a
\* file accepted before stay stored
C4_Witness ==
    /\ Completed
    /\ allErrors = <<>>
    /\ errors = <<"Too many rows.">>
    /\ CompletedData = <<GoodRow, BadRow>>
    /\ parsedData = <<GoodRow>>
    /\ uploadedFileName # Some(opFile[1].name)

\* C5: a complete callback with no per-row message whose batch validator returns
\* null or "" stores exactly the parsed rows, leaves the error list empty, sets
\* the file name and calls onUpload once with those rows; onUpload is called in
\* no other step.
C5_SuccessStoresRowsWithEmptyErrors ==
    [][/\ (/\ op' = "complete"
           /\ Len(allErrors') = 0
           /\ \E j \in CallsTo("validator", calls') :
                 calls'[j].ret \in {None, Some("")}) =>
             /\ parsedData' = opFile'[1].data
             /\ errors' = <<>>
             /\ uploadedFileName' = Some(opFile'[1].name)
             /\ Cardinality(CallsTo("onUpload", calls')) = 1
             /\ \A j \in CallsTo("onUpload", calls') :
                   calls'[j].arg = opFile'[1].data
       /\ CallsTo("onUpload", calls') # {} =>
             /\ op' = "complete"
             /\ Len(allErrors') = 0
             /\ \E j \in CallsTo("validator", calls') :
                   calls'[j].ret \in {None, Some("")}]_vars

\* C6: onDrop of a file larger than a configured (non-null, non-zero) limit of
\* maxSizeMB * 1024 * 1024 bytes sets the file-rejected message, starts no
\* parse, leaves errors empty and the stored rows and file name as they were,
\* and calls nothing; a file of exactly the limit, or any file without a limit,
\* is handed to the parser and fileError is null.
C6_SizeGate ==
    [][op' = "onDrop" =>
          LET file == opFile'[1]
          IN  IF /\ maxSizeMB # None
                 /\ maxSizeMB[1] # 0
                 /\ file.size > maxSizeMB[1] * 1024 * 1024
              THEN /\ fileError' # None
                   /\ fileError'[1][1] = "File exceeds maximum size of "
                   /\ Len(inflight') = Len(inflight)
                   /\ errors' = <<>>
                   /\ Accepted' = Accepted
                   /\ calls' = NoCalls
              ELSE /\ fileError' = None
                   /\ Len(inflight') = Len(inflight) + 1
                   /\ inflight'[Len(inflight')].file = file
                   /\ CallsTo("Papa.parse", calls') # {}]_vars

\* a file one byte over a 1 MB limit was rejected while an accepted file's rows
\* stay stored
C6_Witness ==
    /\ op = "onDrop"
    /\ maxSizeMB = Some(1)
    /\ opFile[1].size = 1024 * 1024 + 1
    /\ fileError = Some(FileTooLargeMsg)
    /\ inflight = <<>>
    /\ errors = <<>>
    /\ parsedData = <<GoodRow>>

\* no parse of the latest selection is in flight: the latest attempt is over
LatestAttemptFinished ==
    /\ op \in {"onDrop", "complete", "error"}
    /\ \A i \in DOMAIN inflight : ~inflight[i].latest

\* C7 as stated: once the latest upload attempt has finished, the rows
\* collection holds no rows of an earlier upload (rows that a file stored when
\* it was the latest selection and that a later selection has superseded).
C7_RowsOfEarlierUploadDiscarded ==
    LatestAttemptFinished => (parsedDataSrc = "earlier" => parsedData = <<>>)

\* C7 as amended: the stored rows change only when a complete callback accepts
\* a file (they become exactly that file's rows), when a dataFetcher result
\* arrives, or when a delete is confirmed (they become empty); onDrop, a size
\* rejection, a parse failure, per-row errors and a validator message leave
\* them as they were.
C7_RowsChangeOnlyOnAcceptFetchDelete ==
    [][parsedData' # parsedData =>
          \/ /\ op' = "complete"
             /\ CallsTo("onUpload", calls') # {}
             /\ parsedData' = opFile'[1].data
          \/ op' = "fetchThen"
          \/ op' = "deleteConfirmed" /\ parsedData' = <<>>]_vars

\* the latest attempt ended in per-row errors and the rows of the file accepted
\* before it are still stored
C7_Witness ==
    /\ LatestAttemptFinished
    /\ Completed
    /\ errors # <<>>
    /\ errors = allErrors
    /\ parsedDataSrc = "earlier"
    /\ parsedData = <<GoodRow>>
    /\ inflight = <<>>

\* C8: a complete or error callback of a parse that a later selection has
\* superseded changes nothing of the component's state.
C8_SupersededCallbackChangesNothing ==
    [][(op' \in {"complete", "error"} /\ ~opLatest') => fields' = fields]_vars

\* C9: a confirmed delete empties the stored rows, nulls the file name, hides
\* the table and calls onDelete once, leaving errors and fileError as they
\* were; a declined delete changes no state and does not call onDelete.
C9_DeleteFrame ==
    [][/\ op' = "deleteConfirmed" =>
             /\ parsedData' = <<>>
             /\ uploadedFileName' = None
             /\ showUploadedDataTable' = FALSE
             /\ Cardinality(CallsTo("onDelete", calls')) = 1
             /\ errors' = errors
             /\ fileError' = fileError
       /\ op' = "deleteDeclined" =>
             /\ fields' = fields
             /\ inflight' = inflight
             /\ pendingFetches' = pendingFetches
             /\ CallsTo("onDelete", calls') = {}]_vars

\* a delete was confirmed while the error list of a failed later upload was shown
C9_Witness ==
    /\ op = "deleteConfirmed"
    /\ parsedData = <<>>
    /\ uploadedFileName = None
    /\ uploadedFileSize # None
    /\ errors # <<>>
    /\ ~showUploadedDataTable

\* C10: after a confirmed delete the stored rows stay empty until the next file
\* selection or press of the visualize button.
C10_RowsStayEmptyAfterDelete ==
    deletedSince => parsedData = <<>>

====
